---- MODULE Spec2Model ----
(***************************************************************************)
(* A model of build/linux/sysroot_scripts/install-sysroot.py: the sysroot  *)
(* table, the install pipeline of InstallSysroot, the default policy of    *)
(* InstallDefaultSysroots, main and the top-level error handler.  The file *)
(* system under build/linux is part of the state; the network and the two  *)
(* sub-processes (wget, tar) are the environment.                          *)
(***************************************************************************)
EXTENDS Integers, Sequences, FiniteSets, TLC

(***************************************************************************)
(* Bounds of the model.                                                    *)
(***************************************************************************)
\* how many times the script is run one after another on the same checkout
MaxRuns == 1
\* how many direct calls of InstallSysroot the call-level specification makes
MaxCalls == 2

(***************************************************************************)
(* The configuration table.                                                *)
(***************************************************************************)
URL_PREFIX == "https://commondatastorage.googleapis.com"
URL_PATH == "chrome-linux-sysroot/toolchain"

Rev == "e964581657e61f47a74b7e2e34e33744ac53d5a6"

SYSROOTS ==
  (<<"Wheezy", "amd64">> :>
      [Revision |-> Rev,
       Tarball |-> "debian_wheezy_amd64_sysroot.tgz",
       Sha1Sum |-> "d67377aedc8ca477a50cc75aeb59542c8cd98894",
       SysrootDir |-> "debian_wheezy_amd64-sysroot"]) @@
  (<<"Wheezy", "arm">> :>
      [Revision |-> Rev,
       Tarball |-> "debian_wheezy_arm_sysroot.tgz",
       Sha1Sum |-> "ab538d29171823951a330ba7f8ac1502f3670ebe",
       SysrootDir |-> "debian_wheezy_arm-sysroot"]) @@
  (<<"Wheezy", "i386">> :>
      [Revision |-> Rev,
       Tarball |-> "debian_wheezy_i386_sysroot.tgz",
       Sha1Sum |-> "8d7f58fc77be09cad83f246a5d730de45ac48efb",
       SysrootDir |-> "debian_wheezy_i386-sysroot"]) @@
  (<<"Wheezy", "mips">> :>
      [Revision |-> Rev,
       Tarball |-> "debian_wheezy_mips_sysroot.tgz",
       Sha1Sum |-> "9960b7398487038709bdb8419c144ebee5eff061",
       SysrootDir |-> "debian_wheezy_mips-sysroot"]) @@
  (<<"Jessie", "arm64">> :>
      [Revision |-> Rev,
       Tarball |-> "debian_jessie_arm64_sysroot.tgz",
       Sha1Sum |-> "035e6abf3bd8e6c5e8ce27cf62b6502cbffefe6b",
       SysrootDir |-> "debian_jessie_arm64-sysroot"]) @@
  (<<"Precise", "amd64">> :>
      [Revision |-> Rev,
       Tarball |-> "ubuntu_precise_amd64_sysroot.tgz",
       Sha1Sum |-> "9f13ac5b78027082ff7e7c34d55533dcb85a2c01",
       SysrootDir |-> "ubuntu_precise_amd64-sysroot"])

Keys == DOMAIN SYSROOTS

valid_archs == {"arm", "arm64", "i386", "amd64", "mips"}

\* the platform names and the pairs a caller may pass to InstallSysroot
Platforms == {"Wheezy", "Jessie", "Precise"}
Pairs == Platforms \X valid_archs

\* url = '%s/%s/%s/%s' % (URL_PREFIX, URL_PATH, revision, tarball_filename)
Url(k) ==
  URL_PREFIX \o "/" \o URL_PATH \o "/" \o SYSROOTS[k].Revision \o "/" \o SYSROOTS[k].Tarball

\* a layout in which Precise/amd64 is unpacked where Wheezy/amd64 lives
SysrootPathShared(k) ==
  IF k = <<"Precise", "amd64">>
    THEN SYSROOTS[<<"Wheezy", "amd64">>].SysrootDir
    ELSE SYSROOTS[k].SysrootDir

\* sysroot = os.path.join(linux_dir, sysroot_dict['SysrootDir']); linux_dir is
\* the same for every call, so a directory is named by its last component
SysrootPath(k) == SYSROOTS[k].SysrootDir

DirNames == {SYSROOTS[k].SysrootDir : k \in Keys}

(***************************************************************************)
(* Files.  A directory is a function from the names of its entries to      *)
(* their contents; a content is a string naming the bytes.                 *)
(***************************************************************************)
STAMP == ".stamp"

EmptyFiles == [n \in {} |-> ""]
NoDir == [exists |-> FALSE, files |-> EmptyFiles]
EmptyDir == [exists |-> TRUE, files |-> EmptyFiles]

RemoveNothing(files, names) == files

\* os.remove / rmtree: the entries named are gone
Remove(files, names) == [n \in (DOMAIN files) \ names |-> files[n]]
Put(files, name, content) == [n \in (DOMAIN files) \cup {name} |->
                                 IF n = name THEN content ELSE files[n]]

\* the bytes the server publishes at a URL, a damaged copy of them, and what a
\* transfer that broke off leaves behind
Genuine(u) == "tgz@" \o u
Corrupt(u) == "corrupt@" \o u
Truncated(u) == "partial@" \o u

\* a release of the table before the current one: an earlier revision of the
\* same tarballs, which earlier runs of the script may have installed
OldRev == "0b1f2d3c4e5a69788796a5b4c3d2e1f00f1e2d3c"
OldUrl(k) ==
  URL_PREFIX \o "/" \o URL_PATH \o "/" \o OldRev \o "/" \o SYSROOTS[k].Tarball

\* the digest of any content that is not one of the published tarballs (SHA-1
\* is taken to have no collision with the digests of the table)
OtherDigest == "da39a3ee5e6b4b0d3255bfef95601890afd80709"

GetSha1(content) ==
  IF \E k \in Keys : content = Genuine(Url(k))
    THEN SYSROOTS[CHOOSE k \in Keys : content = Genuine(Url(k))].Sha1Sum
    ELSE OtherDigest

\* the members of an archive, in archive order (tar writes them in this order)
Members(content) ==
  IF \E k \in Keys : content = Genuine(Url(k)) THEN <<"lib/libc.so", "lib/libnew.so">>
  ELSE IF \E k \in Keys : content = Genuine(OldUrl(k)) THEN <<"lib/libc.so", "lib/libold.so">>
  ELSE <<"lib/libc.so">>

\* tar xf tarball -C sysroot, stopped after the first n members: every member
\* written carries the bytes of the archive it came from
Extracted(files, content, n) ==
  [m \in (DOMAIN files) \cup {Members(content)[i] : i \in 1..n} |->
     IF \E i \in 1..n : Members(content)[i] = m THEN content ELSE files[m]]

\* a directory as a complete install from the archive at URL u leaves it
InstalledDir(u) ==
  [exists |-> TRUE,
   files |-> Put(Extracted(EmptyFiles, Genuine(u), Len(Members(Genuine(u)))), STAMP, u)]

(***************************************************************************)
(* State.                                                                  *)
(***************************************************************************)
VARIABLES
  fs,          \* the directories under build/linux, by name
  runs,        \* runs of the script started so far
  calls,       \* direct calls of InstallSysroot made so far
  options,     \* the parsed command line of the running script
  sys_platform,\* sys.platform, once main has read it
  host_arch,   \* main's host_arch, once detected
  target_arch, \* InstallDefaultSysroots' target_arch, once detected
  mpc,         \* where the script is: idle, in main, in the policy, exited
  ipc,         \* where InstallSysroot is, "none" outside it
  cur,         \* (target_platform, target_arch) of the running InstallSysroot
  exc,         \* the exception in flight or last raised
  exitCode,    \* the exit status of the last run
  stdout,      \* lines printed by the running script
  stderr,      \* lines written to standard error by the running script
  requests,    \* the keys InstallSysroot was called with in this run, in order
  io,          \* what the running InstallSysroot has done to the outside world
  found,       \* what the running InstallSysroot's stamp check found
  prior,       \* how the previous InstallSysroot of the same key ended
  last,        \* per key, how its latest InstallSysroot ended
  procs,       \* two InstallSysroot processes running at once on one key
  merge        \* the arguments and the outcome of a call of MergeDicts

vars == <<fs, runs, calls, options, sys_platform, host_arch, target_arch, mpc, ipc, cur, exc,
          exitCode, stdout, stderr, requests, io, found, prior, last, procs, merge>>

NoArch == "None"
NoKey == <<"None", "None">>
NoCode == 0 - 1
NoExc == [kind |-> "none", msg |-> ""]
NoOptions == [running_as_hook |-> FALSE, arch |-> NoArch]
NoIo == [net |-> 0, writes |-> 0, reads |-> 0]
NoProcs == [key |-> NoKey, pc |-> <<"none", "none">>, err |-> <<"", "">>,
            clobbered |-> FALSE]
NoMerge == [state |-> "none", left |-> <<>>, right |-> <<>>, out |-> <<>>, err |-> ""]

\* the checkout before the first run: nothing installed, or every sysroot
\* installed by an earlier release of the script (an older revision)
OldInstalls == {{}, Keys}

\* the checkout as complete runs of this release of the script leave it:
\* every sysroot installed and stamped with its URL
CurrentInstalls ==
  [d \in DirNames |->
     IF \E k \in Keys : SysrootPath(k) = d
       THEN InstalledDir(Url(CHOOSE k \in Keys : SysrootPath(k) = d))
       ELSE NoDir]

\* the script before its first run
InitScript ==
  /\ runs = 0
  /\ calls = 0
  /\ options = NoOptions
  /\ sys_platform = "unread"
  /\ host_arch = NoArch
  /\ target_arch = "unread"
  /\ mpc = "idle"
  /\ ipc = "none"
  /\ cur = NoKey
  /\ exc = NoExc
  /\ exitCode = NoCode
  /\ stdout = <<>>
  /\ stderr = <<>>
  /\ requests = <<>>
  /\ io = NoIo
  /\ found = "none"
  /\ prior = "none"
  /\ last = [k \in Keys |-> "never"]
  /\ procs = NoProcs

Init ==
  /\ \/ \E old \in OldInstalls :
          fs = [d \in DirNames |->
                  IF \E k \in old : SysrootPath(k) = d
                    THEN InstalledDir(OldUrl(CHOOSE k \in old : SysrootPath(k) = d))
                    ELSE NoDir]
     \/ fs = CurrentInstalls
  /\ InitScript
  /\ merge = NoMerge

(***************************************************************************)
(* Raising and calling.                                                    *)
(***************************************************************************)
Error(msg) == [kind |-> "Error", msg |-> msg]
CalledProcessError(cmd) ==
  [kind |-> "CalledProcessError",
   msg |-> "Command '" \o cmd \o "' returned non-zero exit status"]
IOError(what) == [kind |-> "IOError", msg |-> what]
OSError(what) == [kind |-> "OSError", msg |-> what]

\* an exception that stops the function it is raised in and lets the caller
\* go on (a caller that catches and continues)
RaiseAndGoOn(e, step) ==
  /\ exc' = e
  /\ mpc' = mpc
  /\ ipc' = "none"
  /\ last' = IF ipc # "none" /\ cur \in Keys THEN [last EXCEPT ![cur] = step] ELSE last

\* an exception leaves every frame up to the top level (nothing below the
\* top level catches anything)
Raise(e, step) ==
  /\ exc' = e
  /\ mpc' = "raised"
  /\ ipc' = "none"
  /\ last' = IF ipc # "none" /\ cur \in Keys THEN [last EXCEPT ![cur] = step] ELSE last

\* the call InstallSysroot(target_platform, target_arch)
CallInstallSysroot(pair) ==
  /\ cur' = pair
  /\ ipc' = "enter"
  /\ io' = NoIo
  /\ found' = "none"
  /\ prior' = IF pair \in Keys THEN last[pair] ELSE "none"

(***************************************************************************)
(* InstallSysroot, one action per step.                                    *)
(***************************************************************************)
Dir == fs[SysrootPath(cur)]
SetDir(d) == fs' = [fs EXCEPT ![SysrootPath(cur)] = d]
TarballName == SYSROOTS[cur].Tarball

\* a lookup that looks at the architecture alone
KnownByArch(pair) == pair[2] \in valid_archs

\* if (target_platform, target_arch) not in SYSROOTS
Known(pair) == pair \in Keys

\* a stamp check that reads a line and keeps its newline
UpToDateLine(dir, url) ==
  dir.exists /\ STAMP \in DOMAIN dir.files /\ dir.files[STAMP] \o "\n" = url

\* a stamp check that asks only whether the directory is there
UpToDateDirOnly(dir, url) == dir.exists

\* os.path.exists(stamp) and s.read() == url
UpToDate(dir, url) == dir.exists /\ STAMP \in DOMAIN dir.files /\ dir.files[STAMP] = url

\* a pipeline that clears the directory away when the digests differ
CleanupOnMismatch(dir, ok) == IF ok THEN dir ELSE NoDir

\* lines 250-253 touch nothing on disk, whichever way the comparison goes
AfterVerify(dir, ok) == dir

\* a pipeline that does not compare the digests
VerifiedAlways(sha1sum, expected) == TRUE

\* if sha1sum != tarball_sha1sum: raise
Verified(sha1sum, expected) == sha1sum = expected

\* a reset that makes the directory only when it is missing
ResetKeepAll(dir) == [dir EXCEPT !.exists = TRUE]

\* a reset that removes the stamp and leaves the rest
ResetStampOnly(dir) == [exists |-> TRUE, files |-> Remove(dir.files, {STAMP})]

\* if os.path.isdir(sysroot): shutil.rmtree(sysroot); then os.mkdir(sysroot)
ResetDir(dir) == EmptyDir

\* a stamp written as a line
StampLine(url) == url \o "\n"

\* s.write(url)
StampContent(url) == url

\* lines 219-229: the table lookup
Enter ==
  /\ ipc = "enter"
  /\ IF Known(cur)
       THEN /\ ipc' = "check"
            /\ UNCHANGED <<exc, mpc, last>>
       ELSE Raise(Error("No sysroot for: " \o cur[1] \o " " \o cur[2]), "lookup")
  /\ UNCHANGED <<fs, runs, calls, options, sys_platform, host_arch, target_arch, cur, exitCode,
                 stdout, stderr, requests, io, found, prior>>
  /\ UNCHANGED <<procs, merge>>

\* lines 231-240: the stamp check
CheckStamp ==
  /\ ipc = "check"
  /\ io' = [io EXCEPT !.reads = @ + 1]
  /\ IF UpToDate(Dir, Url(cur))
       THEN /\ stdout' = Append(stdout, "Debian " \o cur[1] \o " " \o cur[2] \o
                                  " root image already up to date: " \o SysrootPath(cur))
            /\ found' = "match"
            /\ ipc' = "return"
       ELSE /\ stdout' = Append(stdout, "Installing Debian " \o cur[1] \o " " \o cur[2] \o
                                  " root image: " \o SysrootPath(cur))
            /\ found' = IF ~Dir.exists THEN "absent"
                        ELSE IF STAMP \in DOMAIN Dir.files THEN "differs" ELSE "nostamp"
            /\ ipc' = "reset"
  /\ UNCHANGED <<fs, runs, calls, options, sys_platform, host_arch, target_arch, mpc, cur, exc,
                 exitCode, stderr, requests, prior, last>>
  /\ UNCHANGED <<procs, merge>>

\* lines 241-247: remove the directory if it is there, make it anew.  rmtree
\* removes entry after entry and raises at the first one it cannot remove, so
\* a failed rmtree leaves the directory with any part of its entries
Reset ==
  /\ ipc = "reset"
  /\ \/ /\ SetDir(ResetDir(Dir))
        /\ io' = [io EXCEPT !.writes = @ + (IF Dir.exists THEN 2 ELSE 1)]
        /\ stdout' = Append(stdout, "Downloading " \o Url(cur))
        /\ ipc' = "fetch"
        /\ UNCHANGED <<exc, mpc, last>>
     \/ /\ Dir.exists
        /\ \E kept \in SUBSET (DOMAIN Dir.files) :
             SetDir([Dir EXCEPT !.files = Remove(@, (DOMAIN Dir.files) \ kept)])
        /\ io' = [io EXCEPT !.writes = @ + 1]
        /\ Raise(OSError("[Errno 13] Permission denied"), "reset")
        /\ UNCHANGED stdout
  /\ UNCHANGED <<runs, calls, options, sys_platform, host_arch, target_arch, cur,
                 exitCode, stderr, requests, found, prior>>
  /\ UNCHANGED <<procs, merge>>

\* what wget can leave at the tarball's path: the published bytes or other
\* bytes with exit status 0, or a broken-off file with a non-zero status
FetchOutcomes == {"genuine", "corrupt", "failed"}

\* lines 248-249: wget --quiet -t 3 -O tarball url
Fetch ==
  /\ ipc = "fetch"
  /\ \E o \in FetchOutcomes :
       /\ SetDir([Dir EXCEPT !.files =
                    Put(@, TarballName,
                        CASE o = "genuine" -> Genuine(Url(cur))
                          [] o = "corrupt" -> Corrupt(Url(cur))
                          [] OTHER -> Truncated(Url(cur)))])
       /\ IF o = "failed"
            THEN Raise(CalledProcessError("wget"), "fetch")
            ELSE /\ ipc' = "verify"
                 /\ UNCHANGED <<exc, mpc, last>>
  /\ io' = [io EXCEPT !.net = @ + 1, !.writes = @ + 1]
  /\ UNCHANGED <<runs, calls, options, sys_platform, host_arch, target_arch, cur, exitCode,
                 stdout, stderr, requests, found, prior>>
  /\ UNCHANGED <<procs, merge>>

\* lines 250-253: the checksum
Verify ==
  /\ ipc = "verify"
  /\ io' = [io EXCEPT !.reads = @ + 1]
  /\ LET sha1sum == GetSha1(Dir.files[TarballName])
         tarball_sha1sum == SYSROOTS[cur].Sha1Sum
     IN /\ SetDir(AfterVerify(Dir, Verified(sha1sum, tarball_sha1sum)))
        /\ IF Verified(sha1sum, tarball_sha1sum)
          THEN /\ ipc' = "extract"
               /\ UNCHANGED <<exc, mpc, last>>
          ELSE Raise(Error("Tarball sha1sum is wrong.Expected " \o tarball_sha1sum \o
                           ", actual: " \o sha1sum), "verify")
  /\ UNCHANGED <<runs, calls, options, sys_platform, host_arch, target_arch, cur, exitCode,
                 stdout, stderr, requests, found, prior>>
  /\ UNCHANGED <<procs, merge>>

\* line 254: tar xf tarball -C sysroot; tar may stop after any member
Extract ==
  /\ ipc = "extract"
  /\ LET content == Dir.files[TarballName]
     IN \E n \in 0..Len(Members(content)) :
          /\ SetDir([Dir EXCEPT !.files = Extracted(@, content, n)])
          /\ IF n = Len(Members(content))
               THEN /\ ipc' = "rm_tarball"
                    /\ UNCHANGED <<exc, mpc, last>>
               ELSE Raise(CalledProcessError("tar"), "extract")
  /\ io' = [io EXCEPT !.reads = @ + 1, !.writes = @ + 1]
  /\ UNCHANGED <<runs, calls, options, sys_platform, host_arch, target_arch, cur, exitCode,
                 stdout, stderr, requests, found, prior>>
  /\ UNCHANGED <<procs, merge>>

\* line 255: os.remove(tarball)
RemoveTarball ==
  /\ ipc = "rm_tarball"
  /\ SetDir([Dir EXCEPT !.files = Remove(@, {TarballName})])
  /\ io' = [io EXCEPT !.writes = @ + 1]
  /\ ipc' = "stamp"
  /\ UNCHANGED <<runs, calls, options, sys_platform, host_arch, target_arch, mpc, cur, exc,
                 exitCode, stdout, stderr, requests, found, prior, last>>
  /\ UNCHANGED <<procs, merge>>

\* lines 257-258: open(stamp, 'w') makes the file, write fills it; the write
\* can fail (a full disk) and leaves the file empty
WriteStamp ==
  /\ ipc = "stamp"
  /\ \E written \in BOOLEAN :
       /\ SetDir([Dir EXCEPT !.files =
                    Put(@, STAMP, IF written THEN StampContent(Url(cur)) ELSE "")])
       /\ IF written
            THEN /\ ipc' = "return"
                 /\ UNCHANGED <<exc, mpc, last>>
            ELSE Raise(IOError("[Errno 28] No space left on device"), "stamp")
  /\ io' = [io EXCEPT !.writes = @ + 1]
  /\ UNCHANGED <<runs, calls, options, sys_platform, host_arch, target_arch, cur, exitCode,
                 stdout, stderr, requests, found, prior>>
  /\ UNCHANGED <<procs, merge>>

\* InstallSysroot returns to its caller
Return ==
  /\ ipc = "return"
  /\ ipc' = "none"
  /\ last' = [last EXCEPT ![cur] = "ok"]
  /\ UNCHANGED <<fs, runs, calls, options, sys_platform, host_arch, target_arch, mpc, cur, exc,
                 exitCode, stdout, stderr, requests, io, found, prior>>
  /\ UNCHANGED <<procs, merge>>

InstallStep ==
  \/ Enter
  \/ CheckStamp
  \/ Reset
  \/ Fetch
  \/ Verify
  \/ Extract
  \/ RemoveTarball
  \/ WriteStamp
  \/ Return

(***************************************************************************)
(* The environment of a run: the command line, the platform, the host      *)
(* architecture detect_host_arch.HostArch() reports and the target_arch of *)
(* GYP_DEFINES.                                                            *)
(***************************************************************************)
CommandLines ==
  {[running_as_hook |-> TRUE, arch |-> NoArch]} \cup
  {[running_as_hook |-> FALSE, arch |-> a] : a \in valid_archs \cup {NoArch}}

SysPlatforms == {"linux2", "darwin"}
HostArchs == {"x64", "ia32", "arm", "arm64", "mips", "ppc", "s390", "mips64"}
GypTargetArchs == {"x64", "ia32", "arm", "arm64", "mipsel", "mips64el", NoArch}

\* DetectHostArch's mapping; NoArch stands for the raise at its end
HostArchOf(detected_host_arch) ==
  CASE detected_host_arch = "x64" -> "amd64"
    [] detected_host_arch = "ia32" -> "i386"
    [] detected_host_arch = "arm" -> "arm"
    [] detected_host_arch = "arm64" -> "arm64"
    [] detected_host_arch = "mips" -> "mips"
    [] detected_host_arch = "ppc" -> "ppc"
    [] detected_host_arch = "s390" -> "s390"
    [] OTHER -> NoArch

\* DetectTargetArch's mapping; NoArch stands for its None
TargetArchOf(gyp_target) ==
  CASE gyp_target = "x64" -> "amd64"
    [] gyp_target = "ia32" -> "i386"
    [] gyp_target = "arm" -> "arm"
    [] gyp_target = "arm64" -> "arm64"
    [] gyp_target = "mipsel" -> "mips"
    [] OTHER -> NoArch

\* a mapping that takes every architecture from Wheezy
DefaultKeyAllWheezy(arch) == IF arch \in valid_archs THEN <<"Wheezy", arch>> ELSE NoKey

\* InstallDefaultSysrootForArch's mapping; NoKey stands for its raise
DefaultKey(arch) ==
  CASE arch = "amd64" -> <<"Wheezy", "amd64">>
    [] arch = "arm" -> <<"Wheezy", "arm">>
    [] arch = "arm64" -> <<"Jessie", "arm64">>
    [] arch = "i386" -> <<"Wheezy", "i386">>
    [] arch = "mips" -> <<"Wheezy", "mips">>
    [] OTHER -> NoKey

\* the call InstallDefaultSysrootForArch(target_arch), main resuming at next
InstallDefaultSysrootForArch(arch, next) ==
  IF DefaultKey(arch) # NoKey
    THEN /\ CallInstallSysroot(DefaultKey(arch))
         /\ requests' = Append(requests, DefaultKey(arch))
         /\ mpc' = next
         /\ UNCHANGED <<exc, last>>
    ELSE /\ Raise(Error("Unknown architecture: " \o arch), "arch")
         /\ UNCHANGED <<cur, requests, io, found, prior>>

\* a short-circuit that knows ppc alone
UsesNoSysrootPpcOnly(host) == host = "ppc"

\* if host_arch in ['ppc','s390']
UsesNoSysroot(host) == host \in {"ppc", "s390"}

\* a target test that forgets the i386 sysroot
WantsTargetNotHost(target, host) == target # NoArch /\ target # host

\* if target_arch and target_arch not in (host_arch, 'i386')
WantsTarget(target, host) == target # NoArch /\ target \notin {host, "i386"}

\* a policy that asks for the i386 sysroot on every host
WantsI386Always(host) == TRUE

\* if host_arch == 'amd64'
WantsI386(host) == host = "amd64"

(***************************************************************************)
(* main and InstallDefaultSysroots, one action per step.                   *)
(***************************************************************************)
\* the script is started: sys.exit(main(sys.argv[1:]))
StartRun ==
  /\ mpc \in {"idle", "exited"}
  /\ runs < MaxRuns
  /\ runs' = runs + 1
  /\ \E o \in CommandLines : options' = o
  /\ mpc' = "main"
  /\ sys_platform' = "unread"
  /\ host_arch' = NoArch
  /\ target_arch' = "unread"
  /\ cur' = NoKey
  /\ exc' = NoExc
  /\ exitCode' = NoCode
  /\ stdout' = <<>>
  /\ stderr' = <<>>
  /\ requests' = <<>>
  /\ io' = NoIo
  /\ found' = "none"
  /\ prior' = "none"
  /\ UNCHANGED <<fs, calls, ipc, last>>
  /\ UNCHANGED <<procs, merge>>

\* lines 183-197 of main
Main ==
  /\ mpc = "main"
  /\ ipc = "none"
  /\ IF options.running_as_hook
       THEN \E p \in SysPlatforms :
              /\ sys_platform' = p
              /\ IF SubSeq(p, 1, 5) # "linux"
                   THEN /\ exitCode' = 0
                        /\ mpc' = "exited"
                   ELSE /\ mpc' = "detect_host"
                        /\ UNCHANGED exitCode
              /\ UNCHANGED <<stdout, cur, ipc, requests, io, found, prior, exc, last>>
       ELSE IF options.arch = NoArch
         THEN /\ stdout' = Append(stdout, "You much specify either --arch or --running-as-hook")
              /\ exitCode' = 1
              /\ mpc' = "exited"
              /\ UNCHANGED <<sys_platform, cur, ipc, requests, io, found, prior, exc, last>>
         ELSE /\ InstallDefaultSysrootForArch(options.arch, "return0")
              /\ UNCHANGED <<sys_platform, exitCode, stdout>>
  /\ UNCHANGED <<fs, runs, calls, options, host_arch, target_arch, stderr>>
  /\ UNCHANGED <<procs, merge>>

\* lines 188-191 of main, with DetectHostArch
DetectHostArch ==
  /\ mpc = "detect_host"
  /\ ipc = "none"
  /\ \E detected \in HostArchs :
       IF HostArchOf(detected) = NoArch
         THEN /\ Raise(Error("Unrecognized host arch: " \o detected), "host")
              /\ UNCHANGED <<host_arch, exitCode>>
         ELSE /\ host_arch' = HostArchOf(detected)
              /\ IF UsesNoSysroot(HostArchOf(detected))
                   THEN /\ exitCode' = 0
                        /\ mpc' = "exited"
                   ELSE /\ mpc' = "def_host"
                        /\ UNCHANGED exitCode
              /\ UNCHANGED <<exc, ipc, last>>
  /\ UNCHANGED <<fs, runs, calls, options, sys_platform, target_arch, cur, stdout,
                 stderr, requests, io, found, prior>>
  /\ UNCHANGED <<procs, merge>>

\* line 156 of InstallDefaultSysroots
DefHost ==
  /\ mpc = "def_host"
  /\ ipc = "none"
  /\ InstallDefaultSysrootForArch(host_arch, "def_i386")
  /\ UNCHANGED <<fs, runs, calls, options, sys_platform, host_arch, target_arch, exitCode, stdout, stderr>>
  /\ UNCHANGED <<procs, merge>>

\* lines 158-159
DefI386 ==
  /\ mpc = "def_i386"
  /\ ipc = "none"
  /\ IF WantsI386(host_arch)
       THEN InstallDefaultSysrootForArch("i386", "def_precise")
       ELSE /\ mpc' = "def_precise"
            /\ UNCHANGED <<cur, ipc, requests, io, found, prior, exc, last>>
  /\ UNCHANGED <<fs, runs, calls, options, sys_platform, host_arch, target_arch, exitCode, stdout, stderr>>
  /\ UNCHANGED <<procs, merge>>

\* line 165
DefPrecise ==
  /\ mpc = "def_precise"
  /\ ipc = "none"
  /\ CallInstallSysroot(<<"Precise", "amd64">>)
  /\ requests' = Append(requests, <<"Precise", "amd64">>)
  /\ mpc' = "def_target"
  /\ UNCHANGED <<fs, runs, calls, options, sys_platform, host_arch, target_arch, exc, exitCode,
                 stdout, stderr, last>>
  /\ UNCHANGED <<procs, merge>>

\* lines 171-173, with DetectTargetArch
DefTarget ==
  /\ mpc = "def_target"
  /\ ipc = "none"
  /\ \E gyp \in GypTargetArchs :
       /\ target_arch' = TargetArchOf(gyp)
       /\ IF WantsTarget(TargetArchOf(gyp), host_arch)
            THEN InstallDefaultSysrootForArch(TargetArchOf(gyp), "return0")
            ELSE /\ mpc' = "return0"
                 /\ UNCHANGED <<cur, ipc, requests, io, found, prior, exc, last>>
  /\ UNCHANGED <<fs, runs, calls, options, sys_platform, host_arch, exitCode, stdout, stderr>>
  /\ UNCHANGED <<procs, merge>>

\* line 199: return 0, and sys.exit of it
Return0 ==
  /\ mpc = "return0"
  /\ ipc = "none"
  /\ exitCode' = 0
  /\ mpc' = "exited"
  /\ UNCHANGED <<fs, runs, calls, options, sys_platform, host_arch, target_arch, ipc, cur, exc,
                 stdout, stderr, requests, io, found, prior, last>>
  /\ UNCHANGED <<procs, merge>>

\* what the interpreter prints for an exception nothing caught
Traceback(e) ==
  <<"Traceback (most recent call last):",
    "  File \"install-sysroot.py\", line 263, in <module>",
    e.kind \o ": " \o e.msg>>

\* lines 261-266: except Error writes str(e) and exits 1; any other exception
\* reaches the interpreter, which prints the traceback and exits 1
TopLevel ==
  /\ mpc = "raised"
  /\ stderr' = IF exc.kind = "Error" THEN Append(stderr, exc.msg)
               ELSE stderr \o Traceback(exc)
  /\ exitCode' = 1
  /\ mpc' = "exited"
  /\ UNCHANGED <<fs, runs, calls, options, sys_platform, host_arch, target_arch, ipc, cur, exc,
                 stdout, requests, io, found, prior, last>>
  /\ UNCHANGED <<procs, merge>>

Next ==
  \/ StartRun
  \/ Main
  \/ DetectHostArch
  \/ DefHost
  \/ DefI386
  \/ DefPrecise
  \/ DefTarget
  \/ Return0
  \/ TopLevel
  \/ InstallStep

Spec == Init /\ [][Next]_vars

(***************************************************************************)
(* InstallSysroot called directly, any pair, one call after another.       *)
(***************************************************************************)
DirectCall ==
  /\ mpc = "idle"
  /\ ipc = "none"
  /\ calls < MaxCalls
  /\ calls' = calls + 1
  /\ \E pair \in Pairs : CallInstallSysroot(pair) /\ requests' = <<pair>>
  /\ exc' = NoExc
  /\ stdout' = <<>>
  /\ UNCHANGED <<fs, runs, options, sys_platform, host_arch, target_arch, mpc, exitCode, stderr, last>>
  /\ UNCHANGED <<procs, merge>>

\* the caller sees the exception
Caught ==
  /\ mpc = "raised"
  /\ mpc' = "idle"
  /\ UNCHANGED <<fs, runs, calls, options, sys_platform, host_arch, target_arch, ipc, cur, exc,
                 exitCode, stdout, stderr, requests, io, found, prior, last>>
  /\ UNCHANGED <<procs, merge>>

NextCall ==
  \/ DirectCall
  \/ Caught
  \/ InstallStep

SpecCall == Init /\ [][NextCall]_vars

(***************************************************************************)
(* Properties of InstallSysroot.                                           *)
(***************************************************************************)
\* the directory holds a stamp file whose content is u
HasStamp(dir, u) == dir.exists /\ STAMP \in DOMAIN dir.files /\ dir.files[STAMP] = u

\* the directory holds every member of the archive published at u, each with
\* that archive's bytes
Populated(dir, u) ==
  /\ dir.exists
  /\ \A i \in 1..Len(Members(Genuine(u))) :
       /\ Members(Genuine(u))[i] \in DOMAIN dir.files
       /\ dir.files[Members(Genuine(u))[i]] = Genuine(u)

\* the call of InstallSysroot(cur) has ended: returned, or raised
Ended == ipc = "none" /\ cur \in Keys /\ last[cur] # "never"
Returned == Ended /\ last[cur] = "ok"
Installed == Returned /\ found # "match"

\* C1: at every moment of a run of InstallSysroot and after it has ended, by
\* return or by a failure at any step, a sysroot directory whose .stamp holds
\* the record's URL holds the complete extracted contents of the tarball
\* published at that URL, whose digest is the record's Sha1Sum.
StampImpliesPopulated ==
  \A k \in Keys :
    HasStamp(fs[SYSROOTS[k].SysrootDir], Url(k)) =>
      Populated(fs[SYSROOTS[k].SysrootDir], Url(k))

StampedAfterInstall == Installed /\ HasStamp(Dir, Url(cur)) /\ prior # "never"

\* C2: a call of InstallSysroot for a key whose previous call returned
\* successfully finds the stamp equal to the URL and returns, and from entry
\* to return makes no network call and changes nothing on disk.
SecondCallDoesNothing ==
  (cur \in Keys /\ prior = "ok") =>
    /\ ipc \in {"enter", "check", "return", "none"}
    /\ io.net = 0
    /\ io.writes = 0
    /\ mpc # "raised"
    /\ exc = NoExc
    /\ ipc \in {"return", "none"} => found = "match"

SecondCallReturned == Returned /\ prior = "ok" /\ found = "match" /\ io.reads = 1

\* C3: a tarball whose digest differs from the record's Sha1Sum never gets
\* past the checksum: the call raises the checksum error and, when it has,
\* the sysroot directory holds no stamp file.
ChecksumEnforced ==
  /\ (cur \in Keys /\ ipc \in {"extract", "rm_tarball"}) =>
       GetSha1(Dir.files[SYSROOTS[cur].Tarball]) = SYSROOTS[cur].Sha1Sum
  /\ (cur \in Keys /\ ipc = "verify" /\
        GetSha1(Dir.files[SYSROOTS[cur].Tarball]) # SYSROOTS[cur].Sha1Sum) =>
       STAMP \notin DOMAIN Dir.files
  /\ (Ended /\ last[cur] = "verify") =>
       /\ exc.kind = "Error"
       /\ exc.msg = "Tarball sha1sum is wrong.Expected " \o SYSROOTS[cur].Sha1Sum \o
                    ", actual: " \o GetSha1(Dir.files[SYSROOTS[cur].Tarball])
       /\ GetSha1(Dir.files[SYSROOTS[cur].Tarball]) # SYSROOTS[cur].Sha1Sum
       /\ STAMP \notin DOMAIN Dir.files

MismatchOverOldStamp ==
  Ended /\ last[cur] = "verify" /\ found = "differs" /\ exc.kind = "Error"

\* C4: when a call of InstallSysroot that did not short-circuit has returned,
\* the stamp file holds exactly URL_PREFIX/URL_PATH/Revision/Tarball of the
\* key's record, nothing before it and nothing after it.
StampIsUrl ==
  Installed =>
    /\ STAMP \in DOMAIN Dir.files
    /\ Dir.files[STAMP] =
         "https://commondatastorage.googleapis.com" \o "/" \o
         "chrome-linux-sysroot/toolchain" \o "/" \o
         SYSROOTS[cur].Revision \o "/" \o SYSROOTS[cur].Tarball
    /\ Len(Dir.files[STAMP]) =
         Len(URL_PREFIX) + Len(URL_PATH) + Len(SYSROOTS[cur].Revision) +
         Len(SYSROOTS[cur].Tarball) + 3

StampWritten == Installed /\ STAMP \in DOMAIN Dir.files /\ io.net = 1

\* C5: a call that finds no stamp, or a stamp that differs from the URL,
\* goes on to the reset; when the reset is done the directory is there and
\* empty, and when the call has returned the directory holds the stamp and
\* the members of the new archive and nothing else: no entry of the old
\* directory is left, and the tarball was fetched in this call.
StaleIsReinstalled ==
  /\ (cur \in Keys /\ ipc \notin {"enter", "check"} /\ found # "match") =>
       ~HasStamp(Dir, Url(cur)) \/ ipc \in {"return", "none"}
  /\ (cur \in Keys /\ ipc = "fetch") =>
       /\ found \in {"absent", "nostamp", "differs"}
       /\ Dir = EmptyDir
  /\ (cur \in Keys /\ ipc = "return") =>
       (found = "match" <=> io.net = 0)
  /\ Installed =>
       /\ Dir = InstalledDir(Url(cur))
       /\ io.net = 1

StaleReinstalled == Installed /\ found = "differs" /\ Dir = InstalledDir(Url(cur))

\* C6: a call of InstallSysroot with a pair that is no key of SYSROOTS never
\* gets past the lookup: it does no I/O at all (no stamp read, no change on
\* disk, no download) and ends raising Error 'No sysroot for: ...'.
UnknownKeyRejected ==
  (cur \notin Keys /\ cur # NoKey) =>
    /\ ipc \in {"enter", "none"}
    /\ io = NoIo
    /\ ipc = "none" =>
         /\ mpc \in {"raised", "idle"}
         /\ exc = [kind |-> "Error", msg |-> "No sysroot for: " \o cur[1] \o " " \o cur[2]]

UnknownKeyRaised == cur \notin Keys /\ cur # NoKey /\ ipc = "none" /\ exc.kind = "Error"

\* C7: when a call of InstallSysroot has failed in fetch, verify or extract,
\* the directory is there and holds no stamp equal to the URL; the next call
\* for the same key does not short-circuit, starts over from an empty
\* directory, and when it returns the directory is the complete install with
\* the matching stamp.
FailedAt == {"fetch", "verify", "extract"}

RecoversAfterFailure ==
  /\ (Ended /\ last[cur] \in FailedAt) =>
       /\ Dir.exists
       /\ ~HasStamp(Dir, Url(cur))
       /\ mpc \in {"raised", "idle", "exited"}
       /\ exc # NoExc
  /\ (cur \in Keys /\ prior \in FailedAt /\ ipc \notin {"enter", "check"}) =>
       /\ found \in {"nostamp", "differs"}
       /\ ipc = "fetch" => Dir = EmptyDir
       /\ ipc = "return" => (Dir = InstalledDir(Url(cur)) /\ io.net = 1)

RecoveredAfterFailure ==
  Installed /\ prior \in FailedAt /\ HasStamp(Dir, Url(cur)) /\ Populated(Dir, Url(cur))

(***************************************************************************)
(* Properties of main and the default policy.                              *)
(***************************************************************************)
\* the key the default policy asks for an architecture
PolicyKey(a) == <<IF a = "arm64" THEN "Jessie" ELSE "Wheezy", a>>

\* the requests a complete hook-mode run makes for a host and a target
PolicyRequests(host, target) ==
  <<PolicyKey(host)>> \o
  (IF host = "amd64" THEN <<PolicyKey("i386")>> ELSE <<>>) \o
  <<(<<"Precise", "amd64">>)>> \o
  (IF target # NoArch /\ target # host /\ target # "i386"
     THEN <<PolicyKey(target)>> ELSE <<>>)

HookRunDone ==
  /\ mpc = "exited"
  /\ options.running_as_hook
  /\ host_arch \in valid_archs
  /\ exc = NoExc

BatchAbort ==
  /\ [](exc # NoExc =>
          /\ ipc = "none"
          /\ mpc \in {"raised", "exited", "idle"}
          /\ \A i \in 1..(Len(requests) - 1) :
               HasStamp(fs[SYSROOTS[requests[i]].SysrootDir], Url(requests[i])))
  /\ [][(exc # NoExc /\ runs' = runs /\ calls' = calls) =>
          /\ requests' = requests
          /\ fs' = fs
          /\ ipc' = "none"
          /\ exc' = exc]_vars

BatchAborted ==
  /\ mpc = "exited"
  /\ exitCode = 1
  /\ exc # NoExc
  /\ Len(requests) = 3
  /\ host_arch = "amd64"
  /\ last[requests[3]] \in FailedAt

\* C10: every fatal error (unrecognized host architecture, unknown key,
\* checksum mismatch, failed download or extraction command) ends the run
\* with exactly one line on standard error and exit code 1.
FatalErrorsOneLine ==
  (mpc = "exited" /\ exc.kind \in {"Error", "CalledProcessError"}) =>
    (Len(stderr) = 1 /\ exitCode = 1)

\* the run has ended without any exception and was not the usage error
EndedClean ==
  /\ mpc = "exited"
  /\ exc = NoExc
  /\ (options.running_as_hook \/ options.arch # NoArch)

\* C11: a run in which nothing is raised exits with code 0, also when every
\* sysroot it asks for is already up to date; a hook-mode run on a host that
\* is not Linux, or whose host architecture is ppc or s390, exits 0 having
\* called InstallSysroot for nothing and done no I/O, and on a non-Linux host
\* the host architecture is not even detected.
CleanRunsExitZero ==
  /\ EndedClean => exitCode = 0
  /\ (options.running_as_hook /\ sys_platform \notin {"unread", "linux2"}) =>
       /\ mpc = "exited"
       /\ exitCode = 0
       /\ host_arch = NoArch
       /\ requests = <<>>
       /\ io = NoIo
       /\ ipc = "none"
       /\ stdout = <<>>
  /\ (options.running_as_hook /\ host_arch \in {"ppc", "s390"}) =>
       /\ mpc = "exited"
       /\ exitCode = 0
       /\ requests = <<>>
       /\ io = NoIo
       /\ ipc = "none"
       /\ stdout = <<>>
  /\ (mpc = "exited" /\ exitCode = 0) => exc = NoExc

AllUpToDateExitZero ==
  /\ EndedClean
  /\ exitCode = 0
  /\ options.running_as_hook
  /\ Len(requests) = 4
  /\ io = [net |-> 0, writes |-> 0, reads |-> 1]
  /\ \A i \in 1..Len(requests) : last[requests[i]] = "ok"
  /\ fs = CurrentInstalls

\* C12: a run with neither --arch nor --running-as-hook is a usage error: it
\* writes its message to standard error (and nothing to standard output),
\* exits with code 1 and calls InstallSysroot for nothing.
UsageErrorOnStderr ==
  (mpc = "exited" /\ ~options.running_as_hook /\ options.arch = NoArch) =>
    /\ exitCode = 1
    /\ requests = <<>>
    /\ Len(stderr) >= 1
    /\ stdout = <<>>

\* C14: a hook-mode run that completes has called InstallSysroot for the
\* sysroot of the host architecture and for the i386 sysroot, whatever the
\* host architecture is.
HasRequest(k) == \E i \in 1..Len(requests) : requests[i] = k

DefaultsIncludeI386 ==
  (HookRunDone /\ exitCode = 0) =>
    /\ HasRequest(PolicyKey(host_arch))
    /\ HasRequest(<<"Wheezy", "i386">>)

\* C17: in a hook-mode run, whatever the host architecture and the detected
\* target, no key is requested twice, so no tarball is asked for twice in
\* one run.
NoDuplicateRequests ==
  options.running_as_hook =>
    \A i, j \in 1..Len(requests) : i # j => requests[i] # requests[j]

I386HostAmd64TargetDone ==
  /\ HookRunDone
  /\ exitCode = 0
  /\ host_arch = "i386"
  /\ target_arch = "amd64"
  /\ requests = << <<"Wheezy", "i386">>, <<"Precise", "amd64">>, <<"Wheezy", "amd64">> >>

\* C18: every request main makes is for a key of SYSROOTS: each architecture
\* --arch accepts, each host architecture that passes the ppc/s390
\* short-circuit, each value DetectTargetArch returns and Precise/amd64; so
\* no run of main ends with 'Unknown architecture' or 'No sysroot for'.
AllRequestsResolve ==
  /\ \A i \in 1..Len(requests) : requests[i] \in DOMAIN SYSROOTS
  /\ (runs > 0 /\ ipc # "none") => cur \in DOMAIN SYSROOTS
  /\ exc.kind = "Error" =>
       /\ SubSeq(exc.msg, 1, 20) # "Unknown architecture"
       /\ SubSeq(exc.msg, 1, 14) # "No sysroot for"

Arm64Resolved ==
  /\ mpc = "exited"
  /\ exitCode = 0
  /\ options.arch = "arm64"
  /\ requests = << <<"Jessie", "arm64">> >>
  /\ HasStamp(fs["debian_jessie_arm64-sysroot"], Url(<<"Jessie", "arm64">>))

(***************************************************************************)
(* Properties of the steps of one call.                                    *)
(***************************************************************************)

\* the steps of InstallSysroot in the order of the code
StepOrder ==
  {<<"none", "enter">>, <<"enter", "check">>, <<"check", "return">>,
   <<"check", "reset">>, <<"reset", "fetch">>, <<"fetch", "verify">>,
   <<"verify", "extract">>, <<"extract", "rm_tarball">>,
   <<"rm_tarball", "stamp">>, <<"stamp", "return">>, <<"return", "none">>}

HasTarball(k) == SYSROOTS[k].Tarball \in DOMAIN fs[SYSROOTS[k].SysrootDir].files

\* C15: the steps of a call follow one another in the order reset, fetch,
\* verify, extract, delete tarball, write stamp, each one complete before the
\* next: the fetch starts on an empty directory, the checksum sees the
\* tarball alone, extraction starts only on a tarball whose digest matched,
\* the tarball is deleted once every member is out, the stamp is written
\* after that; so no directory with the stamp of its URL holds the tarball.
StepsInOrder ==
  /\ [](cur \in Keys =>
          /\ ipc = "fetch" => Dir = EmptyDir
          /\ ipc = "verify" => (Dir.exists /\ DOMAIN Dir.files = {SYSROOTS[cur].Tarball})
          /\ ipc = "extract" =>
               /\ DOMAIN Dir.files = {SYSROOTS[cur].Tarball}
               /\ GetSha1(Dir.files[SYSROOTS[cur].Tarball]) = SYSROOTS[cur].Sha1Sum
          /\ ipc = "rm_tarball" => (Populated(Dir, Url(cur)) /\ HasTarball(cur))
          /\ ipc = "stamp" =>
               /\ Populated(Dir, Url(cur))
               /\ ~HasTarball(cur)
               /\ STAMP \notin DOMAIN Dir.files)
  /\ [](\A k \in Keys :
          /\ HasStamp(fs[SYSROOTS[k].SysrootDir], Url(k)) => ~HasTarball(k)
          /\ \A n \in DOMAIN fs[SYSROOTS[k].SysrootDir].files :
               n \notin {STAMP, SYSROOTS[k].Tarball} =>
                 fs[SYSROOTS[k].SysrootDir].files[n] \in
                   {Genuine(Url(k)), Genuine(OldUrl(k))})
  /\ [][(ipc' # ipc /\ exc' = exc) => <<ipc, ipc'>> \in StepOrder]_vars

InstalledWithoutTarball ==
  /\ Installed
  /\ found = "nostamp"
  /\ io = [net |-> 1, writes |-> 6, reads |-> 3]
  /\ HasStamp(Dir, Url(cur))
  /\ ~HasTarball(cur)

\* C16: when the checksum fails the call ends with the directory as the
\* fetch left it: made anew, holding the downloaded tarball and nothing
\* else; nothing is extracted, there is no stamp, and the failing step
\* removes and changes nothing on disk.
NoCleanupOnMismatch ==
  /\ []((Ended /\ last[cur] = "verify") =>
          /\ Dir.exists
          /\ DOMAIN Dir.files = {SYSROOTS[cur].Tarball}
          /\ GetSha1(Dir.files[SYSROOTS[cur].Tarball]) # SYSROOTS[cur].Sha1Sum
          /\ io.writes = IF found = "absent" THEN 2 ELSE 3)
  /\ [][ipc = "verify" => fs' = fs]_vars

MismatchLeavesTarball ==
  /\ Ended
  /\ last[cur] = "verify"
  /\ found = "absent"
  /\ Dir = [exists |-> TRUE,
            files |-> Put(EmptyFiles, SYSROOTS[cur].Tarball, Corrupt(Url(cur)))]

\* C19: the SysrootDir names of the table are pairwise distinct, and a step
\* of InstallSysroot for a key changes no directory but that key's: the
\* directories, contents and stamps of all other keys stay as they were,
\* whether the call succeeds or fails.
OtherKeysUnchanged ==
  /\ [](\A j, k \in Keys : j # k => SYSROOTS[j].SysrootDir # SYSROOTS[k].SysrootDir)
  /\ [][\A d \in DOMAIN fs :
          fs'[d] # fs[d] =>
            /\ cur \in Keys
            /\ ipc # "none"
            /\ d = SYSROOTS[cur].SysrootDir]_vars

InstalledBesideOthers ==
  /\ Installed
  /\ Dir = InstalledDir(Url(cur))
  /\ \A k \in Keys \ {cur} : fs[SYSROOTS[k].SysrootDir] = InstalledDir(OldUrl(k))

(***************************************************************************)
(* Two invocations at once.  Two processes run InstallSysroot for the same *)
(* key with nothing between them but the file system; every system call    *)
(* of lines 231-258 is one step of a process, and a call on a path that is *)
(* not there fails the way the call fails.                                 *)
(***************************************************************************)
Procs == {1, 2}
Other(p) == IF p = 1 THEN 2 ELSE 1

scriptVars == <<runs, calls, options, sys_platform, host_arch, target_arch, mpc, ipc, cur,
                exc, exitCode, stdout, stderr, requests, io, found, prior, last>>

PDir == fs[SysrootPath(procs.key)]
PSetDir(d) == fs' = [fs EXCEPT ![SysrootPath(procs.key)] = d]
PTarball == SYSROOTS[procs.key].Tarball
PHasTarball == PDir.exists /\ PTarball \in DOMAIN PDir.files

\* the steps between a process's os.mkdir and the end of its stamp write:
\* the process counts on the directory it made
InUse == {"fetch", "verify", "extract", "rm_tarball", "stamp"}

\* what a call raises on a path that is gone
MissingErrors ==
  {"CalledProcessError: wget", "IOError: No such file or directory",
   "CalledProcessError: tar", "OSError: No such file or directory"}

Go(p, step) == procs' = [procs EXCEPT !.pc[p] = step]
Fail(p, e) == procs' = [procs EXCEPT !.pc[p] = "raised", !.err[p] = e]

\* both invocations pass the lookup of lines 221-229 for the same key
StartBoth ==
  /\ procs = NoProcs
  /\ mpc = "idle"
  /\ \E k \in Keys : procs' = [NoProcs EXCEPT !.key = k, !.pc = <<"check", "check">>]
  /\ UNCHANGED <<fs, scriptVars, merge>>

\* lines 231-236
PCheckStamp(p) ==
  /\ procs.pc[p] = "check"
  /\ IF UpToDate(PDir, Url(procs.key)) THEN Go(p, "done") ELSE Go(p, "reset")
  /\ UNCHANGED <<fs, scriptVars, merge>>

\* lines 241-242: if os.path.isdir(sysroot): shutil.rmtree(sysroot)
PRmtree(p) ==
  /\ procs.pc[p] = "reset"
  /\ IF PDir.exists
       THEN /\ PSetDir(NoDir)
            /\ procs' = [procs EXCEPT !.pc[p] = "mkdir",
                                      !.clobbered = @ \/ procs.pc[Other(p)] \in InUse]
       ELSE /\ Go(p, "mkdir")
            /\ UNCHANGED fs
  /\ UNCHANGED <<scriptVars, merge>>

\* line 243: os.mkdir(sysroot)
PMkdir(p) ==
  /\ procs.pc[p] = "mkdir"
  /\ IF PDir.exists
       THEN /\ Fail(p, "OSError: File exists")
            /\ UNCHANGED fs
       ELSE /\ PSetDir(EmptyDir)
            /\ Go(p, "fetch")
  /\ UNCHANGED <<scriptVars, merge>>

\* lines 248-249: wget -O tarball url
PFetch(p) ==
  /\ procs.pc[p] = "fetch"
  /\ IF ~PDir.exists
       THEN /\ Fail(p, "CalledProcessError: wget")
            /\ UNCHANGED fs
       ELSE \E o \in FetchOutcomes :
              /\ PSetDir([PDir EXCEPT !.files =
                            Put(@, PTarball,
                                CASE o = "genuine" -> Genuine(Url(procs.key))
                                  [] o = "corrupt" -> Corrupt(Url(procs.key))
                                  [] OTHER -> Truncated(Url(procs.key)))])
              /\ IF o = "failed"
                   THEN Fail(p, "CalledProcessError: wget failed")
                   ELSE Go(p, "verify")
  /\ UNCHANGED <<scriptVars, merge>>

\* lines 250-253: GetSha1 opens the tarball
PVerify(p) ==
  /\ procs.pc[p] = "verify"
  /\ IF ~PHasTarball
       THEN Fail(p, "IOError: No such file or directory")
       ELSE IF Verified(GetSha1(PDir.files[PTarball]), SYSROOTS[procs.key].Sha1Sum)
              THEN Go(p, "extract")
              ELSE Fail(p, "Error: Tarball sha1sum is wrong.")
  /\ UNCHANGED <<fs, scriptVars, merge>>

\* line 254: tar xf tarball -C sysroot
PExtract(p) ==
  /\ procs.pc[p] = "extract"
  /\ IF ~PHasTarball
       THEN /\ Fail(p, "CalledProcessError: tar")
            /\ UNCHANGED fs
       ELSE LET content == PDir.files[PTarball]
            IN \E n \in 0..Len(Members(content)) :
                 /\ PSetDir([PDir EXCEPT !.files = Extracted(@, content, n)])
                 /\ IF n = Len(Members(content))
                      THEN Go(p, "rm_tarball")
                      ELSE Fail(p, "CalledProcessError: tar failed")
  /\ UNCHANGED <<scriptVars, merge>>

\* line 255: os.remove(tarball)
PRemoveTarball(p) ==
  /\ procs.pc[p] = "rm_tarball"
  /\ IF ~PHasTarball
       THEN /\ Fail(p, "OSError: No such file or directory")
            /\ UNCHANGED fs
       ELSE /\ PSetDir([PDir EXCEPT !.files = Remove(@, {PTarball})])
            /\ Go(p, "stamp")
  /\ UNCHANGED <<scriptVars, merge>>

\* lines 257-258: open(stamp, 'w'); s.write(url)
PWriteStamp(p) ==
  /\ procs.pc[p] = "stamp"
  /\ IF ~PDir.exists
       THEN /\ Fail(p, "IOError: No such file or directory")
            /\ UNCHANGED fs
       ELSE /\ PSetDir([PDir EXCEPT !.files = Put(@, STAMP, StampContent(Url(procs.key)))])
            /\ Go(p, "done")
  /\ UNCHANGED <<scriptVars, merge>>

NextConc ==
  \/ StartBoth
  \/ \E p \in Procs : PCheckStamp(p)
  \/ \E p \in Procs : PRmtree(p)
  \/ \E p \in Procs : PMkdir(p)
  \/ \E p \in Procs : PFetch(p)
  \/ \E p \in Procs : PVerify(p)
  \/ \E p \in Procs : PExtract(p)
  \/ \E p \in Procs : PRemoveTarball(p)
  \/ \E p \in Procs : PWriteStamp(p)

SpecConc == Init /\ [][NextConc]_vars

\* the stamp says the sysroot is installed and it is not
BadStamp ==
  /\ procs.key # NoKey
  /\ HasStamp(PDir, Url(procs.key))
  /\ ~Populated(PDir, Url(procs.key))

\* C13: two invocations on the same key can leave a stamp equal to the URL
\* on a directory that is not fully populated, and can take files away from
\* under one another; both happen only through the race, that is after one
\* invocation's reset removed the directory the other had made and was
\* still working in.
RaceBreaksInstall ==
  /\ BadStamp => procs.clobbered
  /\ \A p \in Procs : procs.err[p] \in MissingErrors => procs.clobbered
  /\ procs.clobbered => \A p \in Procs : procs.pc[p] \notin {"none", "check", "reset"}

BadStampLeft ==
  /\ BadStamp
  /\ procs.clobbered
  /\ procs.pc[1] = "done"
  /\ procs.pc[2] = "raised"
  /\ procs.err[2] \in MissingErrors

(***************************************************************************)
(* manifest_collator.py: MergeDicts.  A JSON value is a scalar, a list of  *)
(* scalars or a dict from keys to values; a dict is a function from its    *)
(* keys.                                                                   *)
(***************************************************************************)
MaxListLen == 1

Scalar(x) == [t |-> "scalar", s |-> x, l |-> <<>>, d |-> <<>>]
List(xs) == [t |-> "list", s |-> "", l |-> xs, d |-> <<>>]
Dict(f) == [t |-> "dict", s |-> "", l |-> <<>>, d |-> f]

Lists == UNION {[1..n -> {"p", "q"}] : n \in 0..MaxListLen}
DictsOver(keys, values) == UNION {[S -> values] : S \in SUBSET keys}
InnerValues == {Scalar("s")} \cup {List(xs) : xs \in Lists}
Values == InnerValues \cup {Dict(f) : f \in DictsOver({"k"}, InnerValues)}
TopDicts == DictsOver({"a", "b"}, Values)

\* the orders in which a dict can hand out its keys
Orders(keys) ==
  {o \in [1..Cardinality(keys) -> keys] : \A i, j \in DOMAIN o : i # j => o[i] # o[j]}

\* right.iteritems() of a dict whose order the caller does not pick
iteritems(f) == CHOOSE o \in Orders(DOMAIN f) : TRUE

\* a merge of lists that puts right's items first
ExtendFront(xs, ys) == ys \o xs

\* left[k].extend(v)
Extend(xs, ys) == xs \o ys

Raised(e, left) == [err |-> e, d |-> left]

\* the loop of MergeDicts over the keys of right still to come; d is left as
\* the loop, or the exception that ends it, leaves it
RECURSIVE MergeItems(_, _, _)
MergeItems(left, right, items) ==
  IF items = <<>> THEN [err |-> "", d |-> left]
  ELSE LET k == Head(items)
           v == right[k]
       IN IF k \notin DOMAIN left
            THEN MergeItems(Put(left, k, v), right, Tail(items))
          ELSE IF v.t = "dict"
            THEN IF left[k].t # "dict"
                   THEN Raised("AssertionError", left)
                   ELSE LET m == MergeItems(left[k].d, v.d, iteritems(v.d))
                        IN IF m.err # ""
                             THEN Raised(m.err, Put(left, k, Dict(m.d)))
                             ELSE MergeItems(Put(left, k, Dict(m.d)), right, Tail(items))
          ELSE IF v.t = "list"
            THEN IF left[k].t # "list"
                   THEN Raised("AssertionError", left)
                   ELSE MergeItems(Put(left, k, List(Extend(left[k].l, v.l))),
                                   right, Tail(items))
          ELSE Raised("TypeError: exceptions must be old-style classes or derived " \o
                      "from BaseException, not str", left)

MergeDicts(left, right) == MergeItems(left, right, iteritems(right))

InitMerge ==
  /\ fs = CurrentInstalls
  /\ InitScript
  /\ \E left, right \in TopDicts :
       merge = [state |-> "called", left |-> left, right |-> right, out |-> left,
                err |-> ""]

\* one call MergeDicts(left, right), right's keys coming in any order
CallMergeDicts ==
  /\ merge.state = "called"
  /\ \E items \in Orders(DOMAIN merge.right) :
       LET m == MergeItems(merge.left, merge.right, items)
       IN merge' = [merge EXCEPT !.state = IF m.err = "" THEN "returned" ELSE "raised",
                                 !.out = m.d,
                                 !.err = m.err]
  /\ UNCHANGED <<fs, scriptVars, procs>>

NextMerge == CallMergeDicts

SpecMerge == InitMerge /\ [][NextMerge]_vars

\* the two values under a key cannot be merged at this level
Conflict(lv, rv) == rv.t = "scalar" \/ lv.t # rv.t

RECURSIVE Mergeable(_, _)
Mergeable(lv, rv) ==
  /\ ~Conflict(lv, rv)
  /\ rv.t = "dict" =>
       \A j \in (DOMAIN lv.d) \cap (DOMAIN rv.d) : Mergeable(lv.d[j], rv.d[j])

RECURSIVE IsMerge(_, _, _)
IsMerge(out, left, right) ==
  /\ DOMAIN out = (DOMAIN left) \cup (DOMAIN right)
  /\ \A k \in DOMAIN out :
       IF k \notin DOMAIN right THEN out[k] = left[k]
       ELSE IF k \notin DOMAIN left THEN out[k] = right[k]
       ELSE IF right[k].t = "dict"
         THEN out[k].t = "dict" /\ IsMerge(out[k].d, left[k].d, right[k].d)
         ELSE out[k].t = "list" /\ out[k].l = left[k].l \o right[k].l

\* C20: MergeDicts(left, right) returns left with every key only in right
\* added with right's value, every key in both with dict values merged the
\* same way, every key in both with list values holding left's list followed
\* by right's, and keys only in left as they were; it fails exactly when
\* some key in both has a right value that is no dict and no list, or values
\* of different kinds, and then left's value under such a key is not
\* overwritten.
MergeSemantics ==
  merge.state \in {"returned", "raised"} =>
    /\ merge.state = "returned" <=>
         \A k \in (DOMAIN merge.left) \cap (DOMAIN merge.right) :
           Mergeable(merge.left[k], merge.right[k])
    /\ merge.state = "returned" =>
         /\ merge.err = ""
         /\ IsMerge(merge.out, merge.left, merge.right)
    /\ merge.state = "raised" =>
         /\ merge.err # ""
         /\ \A k \in (DOMAIN merge.left) \ (DOMAIN merge.right) :
              merge.out[k] = merge.left[k]
         /\ \A k \in (DOMAIN merge.left) \cap (DOMAIN merge.right) :
              Conflict(merge.left[k], merge.right[k]) => merge.out[k] = merge.left[k]

ListsAndDictsMerged ==
  /\ merge.state = "returned"
  /\ merge.left = [k \in {"a", "b"} |->
                     IF k = "a" THEN List(<<"p">>)
                     ELSE Dict([j \in {"k"} |-> List(<<"q">>)])]
  /\ merge.right = [k \in {"a", "b"} |->
                      IF k = "a" THEN List(<<"q">>)
                      ELSE Dict([j \in {"k"} |-> List(<<"p">>)])]
  /\ merge.out = [k \in {"a", "b"} |->
                    IF k = "a" THEN List(<<"p", "q">>)
                    ELSE Dict([j \in {"k"} |-> List(<<"q", "p">>)])]

====
